---- MODULE Spec2Model ----
(***************************************************************************)
(* Model of the Clean-guardrail scoring and aggregation code:              *)
(*   word_guardrail_bot.py   WordPoisonGuardrailBot                        *)
(*   enhanced_detection.py   EnhancedThreatDetector                        *)
(*   test_poison_guardrail.py  module-level scorer and main                *)
(*   audio_guardrail.py      analyze_audio_file                            *)
(*                                                                         *)
(* Scores and confidences are fixed-point numbers in hundredths: 50 is     *)
(* 0.5, 100 is 1.0.  Arithmetic is exact decimal arithmetic; the binary    *)
(* rounding of Python floats (1.0 - 0.7 = 0.30000000000000004) is not      *)
(* modelled.                                                               *)
(*                                                                         *)
(* A text is a sequence of chunks.  A chunk is a run of n whitespace       *)
(* characters ("ws"), a run of n non-letter, non-whitespace characters     *)
(* ("pad"), or a word given by its letters ("word").                       *)
(***************************************************************************)
EXTENDS Integers, Sequences, FiniteSets, TLC

VARIABLES
  pc,               \* "idle": no call in progress; "loop": analyze_document is
                    \* in its for loop; "done": the call made has returned;
                    \* "crashed": an exception left run_interactive_mode
  file,             \* the file given to analyze_document
  paragraphs,       \* analyze_document: the stripped non-empty paragraphs
  idx,              \* analyze_document: paragraphs consumed by the for loop
  results,          \* analyze_document: results list
  max_score,        \* analyze_document: running max_score
  malicious_count,  \* analyze_document: running malicious_count
  calls,            \* classifier invocations made by the current analysis
  sig_failures,     \* classifier invocations of the current analysis that raised
  analysis,         \* the dict analyze_document returned
  seg,              \* the call of WordPoisonGuardrailBot.get_security_score_for_segment
                    \* made by analyze_audio_file
  audio,            \* the last analyze_audio_file call
  threat,           \* the last EnhancedThreatDetector.get_comprehensive_threat_score call
  modseg,           \* the last module-level get_security_score_for_segment call
  testrun,          \* the last run of test_poison_guardrail main
  pair              \* two calls of WordPoisonGuardrailBot.get_security_score_for_segment
                    \* served by one deterministic classifier

vars == <<pc, file, paragraphs, idx, results, max_score, malicious_count, calls,
          sig_failures, analysis, seg, audio, threat, modseg, testrun, pair>>

-----------------------------------------------------------------------------
(* Bounds of the model *)

MaxParas == 3

-----------------------------------------------------------------------------
(* Program constants *)

One == 100               \* 1.0
MaxInputLen == 512       \* text[:512]
MinParagraphLen == 20    \* len(paragraph) < 20
HighThreshold == 50      \* max_score > 0.5
MediumThreshold == 30    \* max_score > 0.3
FallbackScore == 50      \* return 0.5
MinMatches == 2          \* jailbreak_matches >= 2
MatchWeight == 20        \* jailbreak_matches * 0.2
HeuristicCap == 90       \* min(0.9, ...)

-----------------------------------------------------------------------------
(* Characters and strings *)

UpperLetters == <<"A","B","C","D","E","F","G","H","I","J","K","L","M",
                  "N","O","P","Q","R","S","T","U","V","W","X","Y","Z">>
LowerLetters == <<"a","b","c","d","e","f","g","h","i","j","k","l","m",
                  "n","o","p","q","r","s","t","u","v","w","x","y","z">>

UpperChar(c) ==
  IF \E i \in DOMAIN LowerLetters : LowerLetters[i] = c
  THEN UpperLetters[CHOOSE i \in DOMAIN LowerLetters : LowerLetters[i] = c]
  ELSE c

LowerChar(c) ==
  IF \E i \in DOMAIN UpperLetters : UpperLetters[i] = c
  THEN LowerLetters[CHOOSE i \in DOMAIN UpperLetters : UpperLetters[i] = c]
  ELSE c

\* str.upper() and str.lower() on a string of characters
StrUpper(s) == [i \in DOMAIN s |-> UpperChar(s[i])]
StrLower(s) == [i \in DOMAIN s |-> LowerChar(s[i])]

\* needle in hay, both strings of characters
IsSubstring(needle, hay) ==
  \E i \in 0..(Len(hay) - Len(needle)) :
    \A j \in 1..Len(needle) : hay[i + j] = needle[j]

-----------------------------------------------------------------------------
(* Texts as sequences of chunks *)

Ws(n) == [kind |-> "ws", n |-> n, chars |-> <<>>]
Pad(n) == [kind |-> "pad", n |-> n, chars |-> <<>>]
Word(w) == [kind |-> "word", n |-> Len(w), chars |-> w]

RECURSIVE TextLen(_)
TextLen(t) == IF t = <<>> THEN 0 ELSE Head(t).n + TextLen(Tail(t))

\* the first k characters of a chunk
ChunkTake(c, k) ==
  IF c.kind = "word" THEN Word(SubSeq(c.chars, 1, k))
  ELSE [c EXCEPT !.n = k]

\* the slice left out
TextTakeAll(t, k) == t

\* text[:k]
RECURSIVE TextTake(_, _)
TextTake(t, k) ==
  IF t = <<>> \/ k <= 0 THEN <<>>
  ELSE IF Head(t).n <= k THEN <<Head(t)>> \o TextTake(Tail(t), k - Head(t).n)
  ELSE <<ChunkTake(Head(t), k)>>

IsBlankChunk(c) == c.kind = "ws" \/ c.n = 0

RECURSIVE LStrip(_)
LStrip(t) ==
  IF t = <<>> THEN <<>>
  ELSE IF IsBlankChunk(Head(t)) THEN LStrip(Tail(t)) ELSE t

RECURSIVE RStrip(_)
RStrip(t) ==
  IF t = <<>> THEN <<>>
  ELSE IF IsBlankChunk(t[Len(t)]) THEN RStrip(SubSeq(t, 1, Len(t) - 1)) ELSE t

\* text.strip()
TextStrip(t) == RStrip(LStrip(t))

\* text.lower()
TextLower(t) ==
  [i \in DOMAIN t |->
     IF t[i].kind = "word" THEN Word(StrLower(t[i].chars)) ELSE t[i]]

\* The characters of a text with every non-empty run of non-letters written
\* as one ".": a string of letters occurs in the text exactly when it occurs
\* in this string.
RECURSIVE Skeleton(_)
Skeleton(t) ==
  IF t = <<>> THEN <<>>
  ELSE IF Head(t).kind = "word" THEN Head(t).chars \o Skeleton(Tail(t))
  ELSE IF Head(t).n = 0 THEN Skeleton(Tail(t))
  ELSE <<".">> \o Skeleton(Tail(t))

\* keyword in text
TextContains(keyword, t) == IsSubstring(keyword, Skeleton(t))

-----------------------------------------------------------------------------
(* The classifier capability: transformers.pipeline("text-classification") *)

L_INJECTION == <<"I","N","J","E","C","T","I","O","N">>
L_injection == <<"i","n","j","e","c","t","i","o","n">>
L_Injection == <<"I","n","j","e","c","t","i","o","n">>
L_SAFE == <<"S","A","F","E">>

Labels == {L_INJECTION, L_injection, L_Injection, L_SAFE}
Confidences == {30, 50, 51, 100}

\* What one call of the classifier does: it raises, or returns
\* result[0] = {'label': label, 'score': score}.
Raises == [raises |-> TRUE, label |-> <<>>, score |-> 0]
Returns(l, c) == [raises |-> FALSE, label |-> l, score |-> c]
Outcomes == {Raises} \cup {Returns(l, c) : l \in Labels, c \in Confidences}

-----------------------------------------------------------------------------
(* WordPoisonGuardrailBot.get_security_score_for_segment *)

\* label.upper() == 'INJECTION'
IsInjectionLabel(label) == StrUpper(label) = L_INJECTION

\* The call's outcome: the returned tuple (score, is_malicious, details), or
\* the classifier's exception leaving the function (propagated).
NoCall ==
  [nonempty |-> FALSE, called |-> FALSE, raised |-> FALSE, propagated |-> FALSE,
   label |-> <<>>, confidence |-> 0, submitted |-> <<>>,
   score |-> 0, is_malicious |-> FALSE, details |-> "none"]

GetSecurityScoreForSegment(text, out) ==
  IF TextStrip(text) = <<>>
  THEN [NoCall EXCEPT !.details = "Empty text"]
  ELSE LET call == [NoCall EXCEPT !.nonempty = TRUE, !.called = TRUE,
                                  !.submitted = TextTake(text, MaxInputLen)]
       IN IF out.raises
          THEN [call EXCEPT !.raised = TRUE, !.propagated = TRUE,
                            !.details = "exception"]
          ELSE IF IsInjectionLabel(out.label)
          THEN [call EXCEPT !.label = out.label, !.confidence = out.score,
                            !.score = out.score, !.is_malicious = TRUE,
                            !.details = "Malicious content detected"]
          ELSE [call EXCEPT !.label = out.label, !.confidence = out.score,
                            !.score = One - out.score, !.is_malicious = FALSE,
                            !.details = "Content appears safe"]

-----------------------------------------------------------------------------
(* Input files *)

W_evil == <<"e","v","i","l">>
W_Ignore == <<"I","g","n","o","r","e">>

\* Raw paragraph texts (p.text): blank, 19 characters behind a blank,
\* exactly 20 characters, and longer than the classifier's input.
ParagraphTexts ==
  { <<Ws(2)>>,
    <<Ws(1), Pad(19)>>,
    <<Pad(20)>>,
    <<Word(W_Ignore), Ws(1), Pad(600)>> }

SeqsUpTo(S, n) == UNION {[1..k -> S] : k \in 0..n}

Extensions == {"docx", "doc", "txt"}

\* A file path: whether os.path.exists, its extension, whether Document()
\* can read it, and the text of its paragraphs.
NoFile == [exists |-> FALSE, ext |-> "docx", readable |-> FALSE, paras |-> <<>>]
Files ==
  {[NoFile EXCEPT !.ext = e] : e \in Extensions}
  \cup {[NoFile EXCEPT !.exists = TRUE, !.ext = e] : e \in Extensions}
  \cup {[exists |-> TRUE, ext |-> e, readable |-> TRUE, paras |-> ps] :
          e \in {"docx", "doc"}, ps \in SeqsUpTo(ParagraphTexts, MaxParas)}

-----------------------------------------------------------------------------
(* WordPoisonGuardrailBot.analyze_document *)

NoAnalysis ==
  [kind |-> "none", error |-> "", verdict |-> "", risk_level |-> "",
   max_score |-> 0, total_paragraphs |-> 0, malicious_paragraphs |-> 0,
   details |-> <<>>]

ErrorResult(msg) == [NoAnalysis EXCEPT !.kind = "error", !.error = msg]

\* filepath.lower().endswith(('.docx', '.doc'))
SupportedExtension(f) == f.ext \in {"docx", "doc"}

RECURSIVE SelectNonEmpty(_)
SelectNonEmpty(ps) ==
  IF ps = <<>> THEN <<>>
  ELSE IF TextStrip(Head(ps)) # <<>>
       THEN <<TextStrip(Head(ps))>> \o SelectNonEmpty(Tail(ps))
       ELSE SelectNonEmpty(Tail(ps))

\* the filter left out
ExtractParagraphsUnfiltered(f) == [i \in DOMAIN f.paras |-> TextStrip(f.paras[i])]

\* [p.text.strip() for p in doc.paragraphs if p.text.strip()]
ExtractParagraphs(f) == SelectNonEmpty(f.paras)

\* len(paragraph) < 20
IsShortParagraph(paragraph) == TextLen(paragraph) < MinParagraphLen

\* the comparison left out: the last score wins
UpdateMaxLast(score, current) == score

\* if score > max_score: max_score = score
UpdateMax(score, current) == IF score > current THEN score ELSE current

\* the thresholds taken inclusive
RiskLevelInclusive(m) ==
  IF m >= HighThreshold THEN "HIGH"
  ELSE IF m >= MediumThreshold THEN "MEDIUM"
  ELSE "LOW"

\* the if / elif / else over max_score
RiskLevel(m) ==
  IF m > HighThreshold THEN "HIGH"
  ELSE IF m > MediumThreshold THEN "MEDIUM"
  ELSE "LOW"

VerdictText(m) ==
  IF m > HighThreshold THEN "BLOCKED - Poisoning Attack Detected"
  ELSE IF m > MediumThreshold THEN "SUSPICIOUS - Manual Review Recommended"
  ELSE "SAFE - No Threats Detected"

\* lines 39-60: validation, extraction, and the loop's initial state
\* (AnalyzeStart is the call analyze_document(filepath) on any file)
AnalyzeDocument(f) ==
  /\ file' = f
  /\ idx' = 0
  /\ results' = <<>>
  /\ max_score' = 0
  /\ malicious_count' = 0
  /\ calls' = 0
  /\ sig_failures' = 0
  /\ IF ~f.exists
     THEN /\ analysis' = ErrorResult("File not found")
          /\ paragraphs' = <<>>
          /\ pc' = "done"
     ELSE IF ~SupportedExtension(f)
     THEN /\ analysis' = ErrorResult("Only .docx and .doc files are supported")
          /\ paragraphs' = <<>>
          /\ pc' = "done"
     ELSE IF ~f.readable
     THEN /\ analysis' = ErrorResult("Error analyzing document: cannot open")
          /\ paragraphs' = <<>>
          /\ pc' = "done"
     ELSE IF ExtractParagraphs(f) = <<>>
     THEN /\ analysis' = ErrorResult("Document contains no readable text")
          /\ paragraphs' = <<>>
          /\ pc' = "done"
     ELSE /\ analysis' = NoAnalysis
          /\ paragraphs' = ExtractParagraphs(f)
          /\ pc' = "loop"
  /\ UNCHANGED <<seg, audio, threat, modseg, testrun, pair>>

AnalyzeStart ==
  /\ pc = "idle"
  /\ \E f \in Files : AnalyzeDocument(f)

\* lines 62-65: one iteration of the for loop over a short paragraph
SkipParagraph ==
  /\ pc = "loop"
  /\ idx < Len(paragraphs)
  /\ IsShortParagraph(paragraphs[idx + 1])
  /\ idx' = idx + 1
  /\ UNCHANGED <<pc, file, paragraphs, results, max_score, malicious_count,
                 calls, sig_failures, analysis, seg, audio, threat, modseg,
                 testrun, pair>>

\* lines 62-77: one iteration of the for loop over a scored paragraph; a
\* classifier exception is caught by the except clause of lines 101-102
ScoreWith(out) ==
  /\ LET r == GetSecurityScoreForSegment(paragraphs[idx + 1], out)
     IN /\ calls' = calls + (IF r.called THEN 1 ELSE 0)
        /\ sig_failures' = sig_failures + (IF r.raised THEN 1 ELSE 0)
        /\ IF r.propagated
           THEN /\ analysis' = ErrorResult("Error analyzing document: classifier")
                /\ pc' = "done"
                /\ UNCHANGED <<idx, results, max_score, malicious_count>>
           ELSE /\ results' = Append(results,
                                [paragraph |-> idx + 1, score |-> r.score,
                                 is_malicious |-> r.is_malicious,
                                 details |-> r.details])
                /\ max_score' = UpdateMax(r.score, max_score)
                /\ malicious_count' =
                     malicious_count + (IF r.is_malicious THEN 1 ELSE 0)
                /\ idx' = idx + 1
                /\ UNCHANGED <<pc, analysis>>
  /\ UNCHANGED <<file, paragraphs, seg, audio, threat, modseg, testrun, pair>>

ScoreParagraph ==
  /\ pc = "loop"
  /\ idx < Len(paragraphs)
  /\ ~IsShortParagraph(paragraphs[idx + 1])
  /\ \E out \in Outcomes : ScoreWith(out)

\* lines 79-99: the verdict and the returned dict
Verdict ==
  /\ pc = "loop"
  /\ idx = Len(paragraphs)
  /\ analysis' = [kind |-> "verdict", error |-> "",
                  verdict |-> VerdictText(max_score),
                  risk_level |-> RiskLevel(max_score),
                  max_score |-> max_score,
                  total_paragraphs |-> Len(paragraphs),
                  malicious_paragraphs |-> malicious_count,
                  details |-> results]
  /\ pc' = "done"
  /\ UNCHANGED <<file, paragraphs, idx, results, max_score, malicious_count,
                 calls, sig_failures, seg, audio, threat, modseg, testrun, pair>>

-----------------------------------------------------------------------------
(* EnhancedThreatDetector.get_comprehensive_threat_score *)

K_ignore == <<"i","g","n","o","r","e">>
K_instructions == <<"i","n","s","t","r","u","c","t","i","o","n","s">>
K_dan == <<"d","a","n">>
K_jailbreak == <<"j","a","i","l","b","r","e","a","k">>
K_override == <<"o","v","e","r","r","i","d","e">>
K_bypass == <<"b","y","p","a","s","s">>
K_unrestricted == <<"u","n","r","e","s","t","r","i","c","t","e","d">>
K_harmful == <<"h","a","r","m","f","u","l">>
K_generate == <<"g","e","n","e","r","a","t","e">>

\* jailbreak_keywords
JailbreakKeywords ==
  <<K_ignore, K_instructions, K_dan, K_jailbreak, K_override,
    K_bypass, K_unrestricted, W_evil, K_harmful, K_generate>>

T_toxic == <<"t","o","x","i","c">>
T_Toxic == <<"T","o","x","i","c">>
T_TOXIC == <<"T","O","X","I","C">>
T_TOXICITY == <<"T","O","X","I","C","I","T","Y">>
T_1 == <<"1">>
T_LABEL_1 == <<"L","A","B","E","L","_","1">>
T_POSITIVE == <<"P","O","S","I","T","I","V","E">>
T_HARMFUL == <<"H","A","R","M","F","U","L">>
T_UNSAFE == <<"U","N","S","A","F","E">>
T_Unsafe == <<"U","n","s","a","f","e">>
T_neutral == <<"n","e","u","t","r","a","l">>

Item(l, c) == [label |-> l, score |-> c]

\* What one call of a model does: it raises, or returns a list of items.
ModelRaises == [raises |-> TRUE, items |-> <<>>]
ModelReturns(items) == [raises |-> FALSE, items |-> items]

ToxicityItems == {Item(T_Toxic, 95), Item(T_LABEL_1, 40), Item(T_neutral, 99)}
SafetyItems == {Item(T_toxic, 10), Item(T_Unsafe, 80), Item(T_neutral, 99)}

ToxicityOutcomes ==
  {ModelRaises} \cup {ModelReturns(s) : s \in SeqsUpTo(ToxicityItems, 2)}
SafetyOutcomes ==
  {ModelRaises} \cup {ModelReturns(s) : s \in SeqsUpTo(SafetyItems, 2)}

\* lines 35-45: the score of the first item whose label is a toxicity label
\* (the pipeline's result is a list, so isinstance(..., list) holds)
RECURSIVE ToxicityScore(_)
ToxicityScore(items) ==
  IF items = <<>> THEN 0
  ELSE IF StrUpper(Head(items).label) \in {T_TOXIC, T_TOXICITY, T_1}
       THEN Head(items).score
  ELSE IF StrUpper(Head(items).label) \in {T_LABEL_1, T_POSITIVE}
       THEN Head(items).score
  ELSE ToxicityScore(Tail(items))

Max2(a, b) == IF a >= b THEN a ELSE b
Min2(a, b) == IF a <= b THEN a ELSE b

\* lines 49-55: the greatest score among the items with a harmful label
RECURSIVE SafetyScoreFrom(_, _)
SafetyScoreFrom(items, acc) ==
  IF items = <<>> THEN acc
  ELSE IF StrUpper(Head(items).label) \in {T_TOXIC, T_HARMFUL, T_UNSAFE}
       THEN SafetyScoreFrom(Tail(items), Max2(acc, Head(items).score))
  ELSE SafetyScoreFrom(Tail(items), acc)

SafetyScore(items) == SafetyScoreFrom(items, 0)

\* an interpolation instead of a selection
CombineModelsMean(toxicity_score, safety_score) ==
  (toxicity_score + safety_score) \div 2

\* line 58: final_score = max(toxicity_score, safety_score)
CombineModels(toxicity_score, safety_score) == Max2(toxicity_score, safety_score)

\* lines 66-67: sum(1 for keyword in jailbreak_keywords if keyword in text_lower)
JailbreakMatches(text) ==
  LET text_lower == TextLower(text)
  IN Cardinality({i \in DOMAIN JailbreakKeywords :
                    TextContains(JailbreakKeywords[i], text_lower)})

\* the cap left out
JailbreakScoreUncapped(matches) == matches * MatchWeight

\* line 70: min(0.9, jailbreak_matches * 0.2)
JailbreakScore(matches) == Min2(HeuristicCap, matches * MatchWeight)

\* line 69: jailbreak_matches >= 2
JailbreakFires(matches) == matches >= MinMatches

\* lines 69-71: jailbreak_score is assigned, and final_score raised to it,
\* only when the heuristic fires
CombineHeuristic(final_score, matches) ==
  IF JailbreakFires(matches)
  THEN Max2(final_score, JailbreakScore(matches))
  ELSE final_score

NoThreat ==
  [called |-> FALSE, text |-> <<>>, nonempty |-> FALSE, submitted |-> <<>>,
   raised |-> FALSE, propagated |-> FALSE, complete |-> FALSE,
   toxicity_score |-> 0, safety_score |-> 0, jailbreak_matches |-> 0,
   jailbreak_fired |-> FALSE, jailbreak_score |-> 0, returned |-> 0]

GetComprehensiveThreatScore(text0, tox, saf) ==
  IF TextStrip(text0) = <<>>
  THEN [NoThreat EXCEPT !.called = TRUE, !.text = text0]
  ELSE LET text == IF TextLen(text0) > MaxInputLen
                   THEN TextTake(text0, MaxInputLen) ELSE text0
           call == [NoThreat EXCEPT !.called = TRUE, !.text = text0,
                                    !.nonempty = TRUE, !.submitted = text]
       IN IF tox.raises \/ saf.raises
          THEN [call EXCEPT !.raised = TRUE, !.returned = FallbackScore]
          ELSE LET toxicity_score == ToxicityScore(tox.items)
                   safety_score == SafetyScore(saf.items)
                   matches == JailbreakMatches(text)
               IN [call EXCEPT
                     !.complete = TRUE,
                     !.toxicity_score = toxicity_score,
                     !.safety_score = safety_score,
                     !.jailbreak_matches = matches,
                     !.jailbreak_fired = JailbreakFires(matches),
                     !.jailbreak_score =
                       IF JailbreakFires(matches) THEN JailbreakScore(matches)
                       ELSE 0,
                     !.returned =
                       CombineHeuristic(
                         CombineModels(toxicity_score, safety_score), matches)]

W_BYPASS == <<"B","Y","P","A","S","S">>
W_abundant == <<"a","b","u","n","d","a","n","t">>
W_hello == <<"h","e","l","l","o">>

\* Words the input texts are made of: keywords in several letter cases, a
\* word holding a keyword inside it, and a word that matches nothing.
Vocabulary ==
  <<W_Ignore, W_BYPASS, W_abundant, K_override, W_evil, K_jailbreak, W_hello>>

\* the words of indices >= i in S, each behind one blank
RECURSIVE WordsFrom(_, _)
WordsFrom(i, S) ==
  IF i > Len(Vocabulary) THEN <<>>
  ELSE IF i \in S THEN <<Ws(1), Word(Vocabulary[i])>> \o WordsFrom(i + 1, S)
  ELSE WordsFrom(i + 1, S)

PadLengths == {0, 500}

ThreatTexts ==
  {<<>>, <<Ws(3)>>}
  \cup {<<Pad(n)>> \o WordsFrom(1, S) :
          n \in PadLengths, S \in SUBSET (DOMAIN Vocabulary)}

-----------------------------------------------------------------------------
(* test_poison_guardrail.py *)

\* lines 12-18: the module-level get_security_score_for_segment
ModGetSecurityScoreForSegment(text, out) ==
  LET call == [NoCall EXCEPT !.nonempty = (TextStrip(text) # <<>>),
                             !.called = TRUE,
                             !.submitted = TextTake(text, MaxInputLen)]
  IN IF out.raises
     THEN [call EXCEPT !.raised = TRUE, !.propagated = TRUE,
                       !.details = "exception"]
     ELSE IF out.label = L_INJECTION
     THEN [call EXCEPT !.label = out.label, !.confidence = out.score,
                       !.score = out.score, !.is_malicious = TRUE,
                       !.details = "Malicious segment detected"]
     ELSE [call EXCEPT !.label = out.label, !.confidence = out.score,
                       !.score = One - out.score]

RECURSIVE MaxOf(_)
MaxOf(scores) ==
  IF Len(scores) = 1 THEN scores[1]
  ELSE Max2(Head(scores), MaxOf(Tail(scores)))

\* lines 20-24: get_max_document_score, given the classifier's outcome on
\* each paragraph; every outcome here is a return
GetMaxDocumentScore(ps, outs) ==
  LET scores == [i \in DOMAIN ps |->
                   ModGetSecurityScoreForSegment(ps[i], outs[i]).score]
  IN IF scores # <<>> THEN MaxOf(scores) ELSE 0

\* lines 41-46
TestRiskLevel(m) ==
  IF m > HighThreshold THEN "HIGH"
  ELSE IF m > MediumThreshold THEN "MEDIUM"
  ELSE "LOW"

TestLabel(m) ==
  IF m > HighThreshold THEN "POISONING ATTACK (BLOCKED)"
  ELSE IF m > MediumThreshold THEN "SUSPICIOUS (CAUTION)"
  ELSE "BENIGN (SAFE)"

NoTestRun == [kind |-> "none", max_score |-> 0, risk |-> "", label |-> ""]

TestOutcomes ==
  {Raises, Returns(L_INJECTION, 30), Returns(L_INJECTION, 51),
   Returns(L_injection, 100), Returns(L_SAFE, 50)}

-----------------------------------------------------------------------------
(* audio_guardrail.py *)

\* kind: "none", "returned" (the tuple (score, is_malicious)), or "exception"
\* (an exception left analyze_audio_file); transcribed: transcribe_audio
\* returned a transcript
NoAudio ==
  [kind |-> "none", transcribed |-> FALSE, score |-> 0, is_malicious |-> FALSE]

\* What transcribe_audio does: it raises, or returns the transcript.
TranscribeOutcomes ==
  {[raises |-> TRUE, text |-> <<>>]}
  \cup {[raises |-> FALSE, text |-> t] : t \in ParagraphTexts}

-----------------------------------------------------------------------------
(* Two scorer calls against one deterministic classifier *)

\* Texts (an audio transcript is passed to the scorer as it is,
\* audio_guardrail.py line 25): 512 blanks alone and followed by a word, and
\* texts that differ only after character 512.
PairTexts ==
  { <<Ws(512)>>,
    <<Ws(512), Word(W_Ignore)>>,
    <<Ws(512), Word(W_evil)>>,
    <<Pad(600)>>,
    <<Pad(512), Ws(1), Word(W_Ignore)>>,
    <<Pad(20)>> }

\* what the classifier may be given
ClassifierInputs == PairTexts \cup {TextTake(t, MaxInputLen) : t \in PairTexts}

PairOutcomes == {Returns(L_INJECTION, 100), Returns(L_SAFE, 51)}

\* A deterministic classifier is a function of the input it is given.
Classifiers == [ClassifierInputs -> PairOutcomes]

\* get_security_score_for_segment(text) with self.security_classifier = clf
ScoreWithClassifier(text, clf) ==
  GetSecurityScoreForSegment(text, clf[TextTake(text, MaxInputLen)])

NoPair == [used |-> FALSE, texts |-> <<>>, calls |-> <<>>]

-----------------------------------------------------------------------------
(* The calls *)

Idle ==
  /\ pc = "idle"
  /\ file = NoFile
  /\ paragraphs = <<>>
  /\ idx = 0
  /\ results = <<>>
  /\ max_score = 0
  /\ malicious_count = 0
  /\ calls = 0
  /\ sig_failures = 0
  /\ analysis = NoAnalysis
  /\ seg = NoCall
  /\ audio = NoAudio
  /\ threat = NoThreat
  /\ modseg = NoCall
  /\ testrun = NoTestRun
  /\ pair = NoPair

Init == Idle

\* get_comprehensive_threat_score(text)
ThreatScore ==
  /\ pc = "idle"
  /\ \E text \in ThreatTexts, tox \in ToxicityOutcomes, saf \in SafetyOutcomes :
       threat' = GetComprehensiveThreatScore(text, tox, saf)
  /\ pc' = "done"
  /\ UNCHANGED <<file, paragraphs, idx, results, max_score, malicious_count,
                 calls, sig_failures, analysis, seg, audio, modseg, testrun, pair>>

\* the module-level get_security_score_for_segment(text)
ModScoreSegment ==
  /\ pc = "idle"
  /\ \E text \in ParagraphTexts, out \in Outcomes :
       modseg' = ModGetSecurityScoreForSegment(text, out)
  /\ pc' = "done"
  /\ UNCHANGED <<file, paragraphs, idx, results, max_score, malicious_count,
                 calls, sig_failures, analysis, seg, audio, threat, testrun, pair>>

\* test_poison_guardrail main, lines 31-46: Document(filepath) or the
\* classifier raising ends the run with the exception
TestMainOn(f, outs) ==
  /\ file' = f
  /\ LET ps == SelectNonEmpty(f.paras)
     IN /\ DOMAIN outs = DOMAIN ps
        /\ IF ~f.exists \/ ~f.readable \/ \E i \in DOMAIN outs : outs[i].raises
           THEN testrun' = [NoTestRun EXCEPT !.kind = "exception"]
           ELSE LET m == GetMaxDocumentScore(ps, outs)
                IN testrun' = [kind |-> "report", max_score |-> m,
                               risk |-> TestRiskLevel(m), label |-> TestLabel(m)]

TestMain ==
  /\ pc = "idle"
  /\ \E f \in Files, outs \in SeqsUpTo(TestOutcomes, MaxParas) : TestMainOn(f, outs)
  /\ pc' = "done"
  /\ UNCHANGED <<paragraphs, idx, results, max_score, malicious_count,
                 calls, sig_failures, analysis, seg, audio, threat, modseg, pair>>

\* analyze_audio_file(filepath, guardrail_bot), lines 19-32: neither the
\* function nor its caller (word_guardrail_bot.py line 211) has a try block
AnalyzeAudioWith(tr, out) ==
  /\ IF tr.raises
     THEN /\ audio' = [NoAudio EXCEPT !.kind = "exception"]
          /\ seg' = seg
     ELSE LET r == GetSecurityScoreForSegment(tr.text, out)
          IN /\ seg' = r
             /\ audio' = IF r.propagated
                         THEN [NoAudio EXCEPT !.kind = "exception",
                                              !.transcribed = TRUE]
                         ELSE [kind |-> "returned", transcribed |-> TRUE,
                               score |-> r.score,
                               is_malicious |-> r.is_malicious]

AnalyzeAudioFile ==
  /\ pc = "idle"
  /\ \E tr \in TranscribeOutcomes, out \in Outcomes : AnalyzeAudioWith(tr, out)
  /\ pc' = IF audio'.kind = "exception" THEN "crashed" ELSE "done"
  /\ UNCHANGED <<file, paragraphs, idx, results, max_score, malicious_count,
                 calls, sig_failures, analysis, threat, modseg, testrun, pair>>

\* get_security_score_for_segment on two texts, the classifier unchanged
\* between the calls
ScoreTwice ==
  /\ pc = "idle"
  /\ \E a \in PairTexts, b \in PairTexts, clf \in Classifiers :
       pair' = [used |-> TRUE, texts |-> <<a, b>>,
                calls |-> <<ScoreWithClassifier(a, clf),
                            ScoreWithClassifier(b, clf)>>]
  /\ pc' = "done"
  /\ UNCHANGED <<file, paragraphs, idx, results, max_score, malicious_count,
                 calls, sig_failures, analysis, seg, audio, threat, modseg,
                 testrun>>

\* The caller goes on to its next call: the calls share no mutable state, so
\* the record of the call made is dropped.
Return ==
  /\ pc = "done"
  /\ pc' = "idle"
  /\ file' = NoFile
  /\ paragraphs' = <<>>
  /\ idx' = 0
  /\ results' = <<>>
  /\ max_score' = 0
  /\ malicious_count' = 0
  /\ calls' = 0
  /\ sig_failures' = 0
  /\ analysis' = NoAnalysis
  /\ seg' = NoCall
  /\ audio' = NoAudio
  /\ threat' = NoThreat
  /\ modseg' = NoCall
  /\ testrun' = NoTestRun
  /\ pair' = NoPair

Next ==
  \/ AnalyzeStart
  \/ SkipParagraph
  \/ ScoreParagraph
  \/ Verdict
  \/ ThreatScore
  \/ ModScoreSegment
  \/ TestMain
  \/ AnalyzeAudioFile
  \/ ScoreTwice
  \/ Return

Spec == Init /\ [][Next]_vars

-----------------------------------------------------------------------------
(* Properties *)

IsMaxOf(m, scores) ==
  IF scores = {} THEN m = 0
  ELSE m \in scores /\ \A x \in scores : x <= m

TierMatches(m, tier) ==
  /\ tier \in {"HIGH", "MEDIUM", "LOW"}
  /\ (tier = "HIGH") <=> (m > 50)
  /\ (tier = "MEDIUM") <=> (m > 30 /\ m <= 50)
  /\ (tier = "LOW") <=> (m <= 30)

\* C1: in every verdict of analyze_document and of test_poison_guardrail
\* main the risk tier is HIGH iff max_score > 0.5, MEDIUM iff
\* 0.3 < max_score <= 0.5, LOW iff max_score <= 0.3, for max_score in
\* [0, 1], and the verdict string is the one of the tier.
C1_TierByMaxScore ==
  /\ analysis.kind = "verdict" =>
       /\ analysis.max_score \in 0..100
       /\ TierMatches(analysis.max_score, analysis.risk_level)
       /\ (analysis.risk_level = "HIGH") <=>
            (analysis.verdict = "BLOCKED - Poisoning Attack Detected")
       /\ (analysis.risk_level = "MEDIUM") <=>
            (analysis.verdict = "SUSPICIOUS - Manual Review Recommended")
       /\ (analysis.risk_level = "LOW") <=>
            (analysis.verdict = "SAFE - No Threats Detected")
  /\ testrun.kind = "report" =>
       /\ testrun.max_score \in 0..100
       /\ TierMatches(testrun.max_score, testrun.risk)
       /\ (testrun.risk = "HIGH") <=> (testrun.label = "POISONING ATTACK (BLOCKED)")
       /\ (testrun.risk = "MEDIUM") <=> (testrun.label = "SUSPICIOUS (CAUTION)")
       /\ (testrun.risk = "LOW") <=> (testrun.label = "BENIGN (SAFE)")

\* a verdict at the boundary 0.5, which is MEDIUM
C1_Witness ==
  /\ analysis.kind = "verdict"
  /\ analysis.max_score = 50
  /\ analysis.risk_level = "MEDIUM"
  /\ Len(analysis.details) >= 2

\* C2: every segment result's is_malicious flag is true iff its score
\* exceeds 0.5.
C2_FlagIffScoreAboveHalf ==
  /\ \A k \in DOMAIN results :
       results[k].is_malicious <=> (results[k].score > 50)
  /\ (seg.called /\ ~seg.propagated) => (seg.is_malicious <=> (seg.score > 50))

\* C3: when the classifier raised while a segment of a readable document
\* was scored, analyze_document still returns a verdict.
C3_ClassifierFailureAbsorbed ==
  (pc = "done" /\ analysis.kind # "none" /\ sig_failures > 0)
    => analysis.kind = "verdict"

L_ERROR == <<"E","R","R","O","R">>

\* C4: when the classifier raises on a non-empty text, each scorer returns
\* probability 0.5 with label "ERROR" instead of propagating the error.
C4_ScorerFallbackOnError ==
  /\ (seg.nonempty /\ seg.raised) =>
       (~seg.propagated /\ seg.score = 50 /\ seg.label = L_ERROR)
  /\ (modseg.nonempty /\ modseg.raised) =>
       (~modseg.propagated /\ modseg.score = 50 /\ modseg.label = L_ERROR)
  /\ (threat.nonempty /\ threat.raised) =>
       (~threat.propagated /\ threat.returned = 50)

NonEmptyCount(f) ==
  Cardinality({i \in DOMAIN f.paras : TextStrip(f.paras[i]) # <<>>})

AllShort(f) ==
  \A i \in DOMAIN f.paras : TextLen(TextStrip(f.paras[i])) < 20

Extractable(f) == f.exists /\ f.ext \in {"docx", "doc"} /\ f.readable

\* C5: a document with no non-empty paragraph yields the error "no readable
\* text" and no verdict; a document with a non-empty paragraph whose
\* paragraphs are all shorter than 20 characters yields a verdict with risk
\* LOW, max_score 0.0, no malicious segment and no error, and the classifier
\* is never invoked.
C5_EmptyVersusAllShort ==
  (analysis.kind # "none" /\ Extractable(file)) =>
    /\ NonEmptyCount(file) = 0 =>
         /\ analysis.kind = "error"
         /\ analysis.error = "Document contains no readable text"
    /\ (NonEmptyCount(file) >= 1 /\ AllShort(file)) =>
         /\ analysis.kind = "verdict"
         /\ analysis.error = ""
         /\ analysis.risk_level = "LOW"
         /\ analysis.max_score = 0
         /\ analysis.malicious_paragraphs = 0
         /\ analysis.details = <<>>
         /\ analysis.total_paragraphs = NonEmptyCount(file)
         /\ calls = 0

\* a document of two short paragraphs and a blank one has its verdict
C5_Witness ==
  /\ analysis.kind = "verdict"
  /\ NonEmptyCount(file) = 2
  /\ Len(file.paras) = 3
  /\ AllShort(file)

ScoredSoFar == {i \in 1..idx : TextLen(paragraphs[i]) >= 20}

\* C6: after any prefix of the paragraphs the running max_score is the
\* greatest score among the results appended so far (0.0 when none), the
\* results are those of exactly the paragraphs of length >= 20, in order,
\* and the verdict reports this max_score.
C6_MaxOverScoredSegments ==
  (pc = "loop" \/ analysis.kind = "verdict") =>
    /\ Len(results) = Cardinality(ScoredSoFar)
    /\ {results[k].paragraph : k \in DOMAIN results} = ScoredSoFar
    /\ \A j, k \in DOMAIN results :
         j < k => results[j].paragraph < results[k].paragraph
    /\ IsMaxOf(max_score, {results[k].score : k \in DOMAIN results})
    /\ analysis.kind = "verdict" =>
         /\ idx = Len(paragraphs)
         /\ analysis.details = results
         /\ analysis.max_score = max_score

\* a verdict over a skipped paragraph and two scored ones, the greater score
\* first
C6_Witness ==
  /\ analysis.kind = "verdict"
  /\ Len(paragraphs) = 3
  /\ Len(results) = 2
  /\ results[1].paragraph = 2
  /\ results[2].score < results[1].score
  /\ analysis.max_score = results[1].score

\* label matches the positive label in any letter case
MatchesPositive(label) == StrLower(label) = L_injection

Normalized(r) ==
  r.score = IF MatchesPositive(r.label) THEN r.confidence
            ELSE 100 - r.confidence

\* C7: in every scorer the probability is the confidence when the label is
\* the positive label in any letter case, and 1 - confidence otherwise.
C7_CaseInsensitiveLabels ==
  /\ (seg.called /\ ~seg.raised) => Normalized(seg)
  /\ (modseg.called /\ ~modseg.raised) => Normalized(modseg)

LexiconSet == {JailbreakKeywords[i] : i \in DOMAIN JailbreakKeywords}

\* the number of lexicon keywords that occur in the text in any letter case
CountMatches(text) ==
  LET chars == StrUpper(Skeleton(text))
  IN Cardinality({k \in LexiconSet : IsSubstring(StrUpper(k), chars)})

HeuristicEstimate(m) ==
  IF m < 2 THEN 0 ELSE IF 20 * m < 90 THEN 20 * m ELSE 90

\* C8: when a model call fails, the score returned for a text with m >= 2
\* lexicon matches is still at least min(0.9, 0.2 * m).
C8_HeuristicSurvivesFailure ==
  (threat.nonempty /\ threat.raised /\ CountMatches(threat.submitted) >= 2)
    => threat.returned >= HeuristicEstimate(CountMatches(threat.submitted))

C10_MaximumSelection ==
  threat.complete =>
    /\ threat.returned >= threat.toxicity_score
    /\ threat.returned >= threat.safety_score
    /\ threat.returned >= threat.jailbreak_score
    /\ threat.returned \in
         {threat.toxicity_score, threat.safety_score, threat.jailbreak_score}

\* three different signal scores, the heuristic between the two model scores
C10_Witness ==
  /\ threat.complete
  /\ threat.toxicity_score = 40
  /\ threat.jailbreak_score = 60
  /\ threat.safety_score = 80
  /\ threat.returned = 80

\* an input-level failure of analyze_document: the file is missing, its
\* format is unsupported, it cannot be read, or it holds no text
InputFailure(f) == ~Extractable(f) \/ NonEmptyCount(f) = 0

\* C11: every input-level failure of analyze_document and of
\* analyze_audio_file is returned as an error result, no exception leaves
\* the entry point, and run_interactive_mode goes on after a failed analysis.
C11_InputFailuresAreResults ==
  /\ (analysis.kind # "none" /\ InputFailure(file)) => analysis.kind = "error"
  /\ (audio.kind # "none" /\ ~audio.transcribed) => audio.kind = "error"
  /\ pc # "crashed"

\* C12: in every verdict of analyze_document the malicious segment count is
\* at least 1 iff the risk tier is HIGH.
C12_MaliciousCountMatchesTier ==
  analysis.kind = "verdict" =>
    ((analysis.malicious_paragraphs >= 1) <=> (analysis.risk_level = "HIGH"))

\* the i-th character of a text ("" past its end): a blank in a "ws" run,
\* "." in a "pad" run, the letter in a word
RECURSIVE CharAt(_, _)
CharAt(t, i) ==
  IF t = <<>> THEN ""
  ELSE IF i <= Head(t).n
       THEN IF Head(t).kind = "word" THEN Head(t).chars[i]
            ELSE IF Head(t).kind = "ws" THEN " " ELSE "."
  ELSE CharAt(Tail(t), i - Head(t).n)

AgreeOnFirst(a, b, k) == \A i \in 1..k : CharAt(a, i) = CharAt(b, i)

HasVisibleChar(t) == \E i \in 1..TextLen(t) : CharAt(t, i) # " "

SameOutcome(r1, r2) ==
  /\ r1.called = r2.called
  /\ r1.submitted = r2.submitted
  /\ r1.score = r2.score
  /\ r1.is_malicious = r2.is_malicious

\* C13 as stated: any two texts that agree on their first 512 characters
\* give the classifier the same input and get the same score and flag.
C13_First512Decide ==
  (pair.used /\ AgreeOnFirst(pair.texts[1], pair.texts[2], 512))
    => SameOutcome(pair.calls[1], pair.calls[2])

\* C13, amended: any two texts that each hold a non-whitespace character and
\* agree on their first 512 characters give the classifier the same input
\* and get the same score and flag.
C13_First512DecideNonBlank ==
  (/\ pair.used
   /\ HasVisibleChar(pair.texts[1])
   /\ HasVisibleChar(pair.texts[2])
   /\ AgreeOnFirst(pair.texts[1], pair.texts[2], 512))
    => /\ SameOutcome(pair.calls[1], pair.calls[2])
       /\ pair.calls[1].called
       /\ TextLen(pair.calls[1].submitted) <= 512

\* two texts that differ only after character 512, both flagged malicious
C13_Witness ==
  /\ pair.used
  /\ pair.texts[1] # pair.texts[2]
  /\ TextLen(pair.texts[1]) > 512
  /\ TextLen(pair.texts[2]) > 512
  /\ HasVisibleChar(pair.texts[1])
  /\ HasVisibleChar(pair.texts[2])
  /\ AgreeOnFirst(pair.texts[1], pair.texts[2], 512)
  /\ pair.calls[1].is_malicious
  /\ pair.calls[2].is_malicious

====
